---- MODULE Spec2Model ----
(***************************************************************************)
(* Momentum (momentum-agent): the Streamlit chat handler of app.py, the    *)
(* LangGraph brain of brain.py (supervisor + four persona nodes) and the   *)
(* three on-disk stores (profile JSON, plan-history CSV, journal CSV).     *)
(*                                                                         *)
(* Texts are sequences of phrase tokens: "substring of the lowered text"   *)
(* is "some token whose lower-case form is the phrase".  The hosted LLM is *)
(* an opaque collaborator: every output it can produce (label, content,    *)
(* tool calls, an exception) is a nondeterministic choice.                 *)
(***************************************************************************)
EXTENDS Integers, Sequences, FiniteSets, TLC

\* ------------------------------------------------------------------ bounds
MaxClock == 1        \* ticks of the wall clock explored
MaxMsgs == 3         \* session history length explored
MaxTalkMsgs == 5     \* session history length explored, several turns
MaxBoots == 2        \* process starts explored
MaxJournal == 2      \* journal records explored (file and session)
MaxPlans == 2        \* plan-history rows explored
MaxToolCalls == 2    \* tool calls carried by one persona response
MaxCot == 2          \* recorded reasoning entries up to which a clear is explored
MaxDay == 3          \* calendar days explored by the dashboard metrics
MaxMetricRows == 3   \* journal records explored by the dashboard metrics

\* -------------------------------------------------------------- time scale
TicksPerMinute == 2  \* strftime("%Y-%m-%d %H:%M") drops the seconds
MinutesPerDay == 2   \* strftime("%Y-%m-%d") drops the time of day

\* ------------------------------------------------------- program constants
MinLen == 2          \* input_guard: minimum stripped length
MaxInputLen == 10000 \* input_guard: maximum length

NONE == "<None>"     \* Python None in a text field
NaN == "<NaN>"       \* pandas missing value in a text column

\* --------------------------------------------------------------- app.py:18
SAFETY_KEYWORDS ==
  {"suicide", "kill myself", "want to die", "want to end it all",
   "end my life", "self-harm", "self harm",
   "zh:suicide", "zh:want to die", "zh:do not want to live",
   "zh:cannot go on", "zh:want to end it all", "zh:hurt myself"}

SAFETY_MESSAGE == <<"SAFETY_MESSAGE">>

\* phrases matched by the dangerous_patterns regexes of input_guard
DangerousPhrases ==
  {"ignore all instructions", "forget all rules", "system prompt",
   "you are now", "act as if", "pretend to be", "roleplay as"}

\* ------------------------------------------------------------ text tokens
\* a lowering that leaves upper-case letters as they are
Lower_Identity(t) == t

\* str.lower() on a token
Lower(t) == IF t = "SUICIDE" THEN "suicide" ELSE t

\* len() of a token
TokLen(t) ==
  CASE t = "hi" -> 2
    [] t = "I did it" -> 8
    [] t = "30 is too much" -> 14
    [] t = "x" -> 1
    [] t = " " -> 1
    [] t = "suicide" -> 7
    [] t = "SUICIDE" -> 7
    [] t = "zh:want to die" -> 2
    [] t = "you are now" -> 11
    [] t = "LONG" -> 10000

RECURSIVE TextLen(_)
TextLen(s) == IF s = <<>> THEN 0 ELSE TokLen(Head(s)) + TextLen(Tail(s))

RECURSIVE LStrip(_)
LStrip(s) == IF s # <<>> /\ Head(s) = " " THEN LStrip(Tail(s)) ELSE s

RECURSIVE RStrip(_)
RStrip(s) ==
  IF s # <<>> /\ s[Len(s)] = " " THEN RStrip(SubSeq(s, 1, Len(s) - 1)) ELSE s

\* str.strip()
Strip(s) == RStrip(LStrip(s))

\* str.lower()
LowerText(s) == [i \in DOMAIN s |-> Lower(s[i])]

\* the user inputs explored
Inputs ==
  { <<"hi">>, <<" ", "x">>, <<"SUICIDE">>,
    <<"you are now", "zh:want to die">>, <<"LONG", "suicide">> }

\* the user inputs explored in conversations of several turns
TalkInputs == { <<"SUICIDE">>, <<"I did it">>, <<"30 is too much">> }

\* a guard without the injection-pattern check
input_guard_NoPatterns(user_text) ==
  IF TextLen(Strip(user_text)) < MinLen THEN FALSE
  ELSE IF TextLen(user_text) > MaxInputLen THEN FALSE
  ELSE TRUE

\* app.py:48 input_guard -> is_valid
input_guard(user_text) ==
  IF TextLen(Strip(user_text)) < MinLen THEN FALSE
  ELSE IF TextLen(user_text) > MaxInputLen THEN FALSE
  ELSE IF \E i \in DOMAIN user_text :
            Lower(Lower(user_text[i])) \in DangerousPhrases THEN FALSE
  ELSE TRUE

\* app.py:661 any(keyword in lowered for keyword in SAFETY_KEYWORDS)
HasSafetyKeyword(prompt) ==
  LET lowered == LowerText(prompt)
  IN \E i \in DOMAIN lowered : lowered[i] \in SAFETY_KEYWORDS

\* ================================================================ stores
\* Truthiness of an optional text field: None and "" are falsy.
Truthy(v) == v # NONE /\ v # ""

\* brain.py:53 the default structure
EmptyProfile == [vision |-> NONE, system |-> NONE, last_updated |-> <<>>]

\* states of data/user_profile.json
\*   missing    - no such file
\*   unreadable - open()/read() fails with an IOError
\*   corrupt    - not valid JSON (a truncated write included)
\*   nonobject  - valid JSON whose top-level value is not an object
\*   object     - a JSON object; absent keys read as None
ProfileFileOf(k, v, s, d) ==
  [kind |-> k, vision |-> v, system |-> s, last_updated |-> d]

MissingProfileFile == ProfileFileOf("missing", NONE, NONE, <<>>)
CorruptProfileFile == ProfileFileOf("corrupt", NONE, NONE, <<>>)

\* datetime.now().strftime("%Y-%m-%d"): the day a tick falls in
DateOf(t) == (t \div TicksPerMinute) \div MinutesPerDay

\* datetime.now().strftime("%Y-%m-%d %H:%M"): the minute a tick falls in
MinuteOf(t) == t \div TicksPerMinute

\* a load that does not return the stored system
load_user_profile_DropSystem(f) ==
  CASE f.kind = "object" ->
         [raised |-> FALSE,
          profile |-> [vision |-> f.vision, system |-> NONE,
                       last_updated |-> f.last_updated]]
    [] f.kind = "nonobject" -> [raised |-> TRUE, profile |-> EmptyProfile]
    [] OTHER -> [raised |-> FALSE, profile |-> EmptyProfile]

\* brain.py:27 load_user_profile -> [raised, profile]
load_user_profile(f) ==
  CASE f.kind = "object" ->
         [raised |-> FALSE,
          profile |-> [vision |-> f.vision, system |-> f.system,
                       last_updated |-> f.last_updated]]
    [] f.kind = "nonobject" ->
         \* profile.get on a list/str/number: AttributeError, not caught
         [raised |-> TRUE, profile |-> EmptyProfile]
    [] OTHER ->
         \* missing file, IOError or JSONDecodeError: the default structure
         [raised |-> FALSE, profile |-> EmptyProfile]

\* brain.py:60 save_user_profile; outcome is how the write goes:
\*   "ok", "open" (open() raises, file untouched),
\*   "write" (open() truncated the file, json.dump raised)
save_user_profile(f, vision, system, now, outcome) ==
  CASE outcome = "ok" ->
         [raised |-> FALSE,
          file |-> ProfileFileOf("object", vision, system, <<DateOf(now)>>)]
    [] outcome = "open" -> [raised |-> TRUE, file |-> f]
    [] outcome = "write" -> [raised |-> TRUE, file |-> CorruptProfileFile]

WriteOutcomes == {"ok", "open", "write"}

\* ------------------------------------------------------------ CSV files
\* A CSV file: kind "missing", "empty" (zero bytes), "blank" (pandas raises
\* EmptyDataError), "corrupt" (pandas raises ParserError), or "ok" with its
\* rows as written text.
CsvFileOf(k, r) == [kind |-> k, rows |-> r]
MissingCsv == CsvFileOf("missing", <<>>)
EmptyCsv == CsvFileOf("empty", <<>>)
CorruptCsv == CsvFileOf("corrupt", <<>>)

\* the default na_values of pandas.read_csv that occur here
NaStrings == {"", "N/A"}

\* pandas.read_csv on one text cell: an empty field and the other default
\* na_values read as NaN
ReadCell(text) == IF text \in NaStrings THEN NaN ELSE text

\* DataFrame.to_csv on one cell: NaN is written as the empty field
WriteCell(v) == IF v = NaN THEN "" ELSE v

\* pandas.read_csv on the journal rows
ReadJournalRows(rows) ==
  [i \in DOMAIN rows |->
     [Timestamp |-> rows[i].Timestamp, Mood |-> ReadCell(rows[i].Mood),
      Energy |-> rows[i].Energy, Note |-> ReadCell(rows[i].Note)]]

\* DataFrame.to_csv on a journal frame
WriteJournalRows(df) ==
  [i \in DOMAIN df |->
     [Timestamp |-> df[i].Timestamp, Mood |-> WriteCell(df[i].Mood),
      Energy |-> df[i].Energy, Note |-> WriteCell(df[i].Note)]]

\* app.py:244 load_mind_flow_db -> the frame (never raises on these states)
load_mind_flow_db(f) ==
  IF f.kind = "ok" THEN ReadJournalRows(f.rows) ELSE <<>>

\* app.py:286 the duplicate test of save_to_mind_flow_db
IsDuplicate(df_existing, timestamp, mood, energy, note) ==
  \E i \in DOMAIN df_existing :
     /\ df_existing[i].Timestamp = timestamp
     /\ df_existing[i].Mood # NaN /\ df_existing[i].Mood = mood
     /\ df_existing[i].Energy = energy
     /\ df_existing[i].Note # NaN /\ df_existing[i].Note = note

\* app.py:265 save_to_mind_flow_db -> [file, result]
\*   result "dup" (returned df_existing), "saved" (returned df),
\*   "none" (an exception was caught, returned None)
\*   outcome as for save_user_profile, applied to df.to_csv
save_to_mind_flow_db(f, timestamp, mood, energy, note, outcome) ==
  LET new_entry == [Timestamp |-> timestamp, Mood |-> mood,
                    Energy |-> energy, Note |-> note]
      Write(df) ==
        CASE outcome = "ok" ->
               [file |-> CsvFileOf("ok", WriteJournalRows(df)),
                result |-> "saved"]
          [] outcome = "open" -> [file |-> f, result |-> "none"]
          [] outcome = "write" -> [file |-> EmptyCsv, result |-> "none"]
      Save(df_existing) ==
        IF f.kind = "ok"
           /\ IsDuplicate(df_existing, timestamp, mood, energy, note)
          THEN [file |-> f, result |-> "dup"]
        ELSE IF f.kind \in {"ok", "corrupt", "blank"}
          THEN Write(df_existing \o <<new_entry>>)
        ELSE Write(<<new_entry>>)
  IN Save(IF f.kind = "ok" THEN ReadJournalRows(f.rows) ELSE <<>>)

\* brain.py:93 save_plan_to_csv -> [raised, file]
\*   outcome as for save_user_profile, applied to df.to_csv
save_plan_to_csv(f, vision, system, now, outcome) ==
  LET new_record == [timestamp |-> now, vision |-> vision, system |-> system]
      ReadRows(rows) ==
        [i \in DOMAIN rows |->
           [timestamp |-> rows[i].timestamp,
            vision |-> ReadCell(rows[i].vision),
            system |-> ReadCell(rows[i].system)]]
      WriteRows(df) ==
        [i \in DOMAIN df |->
           [timestamp |-> df[i].timestamp, vision |-> WriteCell(df[i].vision),
            system |-> WriteCell(df[i].system)]]
      df_existing == IF f.kind = "ok" THEN ReadRows(f.rows) ELSE <<>>
      df == IF f.kind \in {"ok", "blank"}
              THEN df_existing \o <<new_record>>
              ELSE <<new_record>>
  IN IF f.kind = "corrupt"
       THEN [raised |-> TRUE, file |-> f]  \* ParserError is not caught
     ELSE CASE outcome = "ok" ->
                 [raised |-> FALSE, file |-> CsvFileOf("ok", WriteRows(df))]
            [] outcome = "open" -> [raised |-> TRUE, file |-> f]
            [] outcome = "write" -> [raised |-> TRUE, file |-> EmptyCsv]

\* ================================================================= world
\* What the tools of a brain invocation read and write:
\*   pf  data/user_profile.json      pl  data/plans_database.csv
\*   jf  data/mind_flow_db.csv       jdb st.session_state.journal_db
\*   cp  brain.current_plan
\* and what a handler run is observed to do:
\*   wr    the files it wrote
\*   saved the arguments of its last set_full_plan whose profile write succeeded
\*   lost  the journal entries whose save returned None
\*   unsaved the arguments of the set_full_plan calls that raised
World(pf, pl, jf, jdb, cp) ==
  [pf |-> pf, pl |-> pl, jf |-> jf, jdb |-> jdb, cp |-> cp,
   wr |-> {}, saved |-> <<>>, lost |-> <<>>, unsaved |-> <<>>]

\* brain.py:156 set_full_plan -> [raised, w]
\*   fail: "none", or which write fails and how
set_full_plan(w, vision, system, now, fail) ==
  LET o1 == CASE fail = "profile-open" -> "open"
              [] fail = "profile-write" -> "write"
              [] OTHER -> "ok"
      o2 == CASE fail = "csv-open" -> "open"
              [] fail = "csv-write" -> "write"
              [] OTHER -> "ok"
      \* an exception leaves the tool
      Raise(wx) ==
        [raised |-> TRUE,
         w |-> [wx EXCEPT !.unsaved =
                  Append(@, [vision |-> vision, system |-> system])]]
      \* current_plan = load_user_profile()
      Reload(w2, ld) ==
        IF ld.raised THEN Raise(w2)
        ELSE [raised |-> FALSE, w |-> [w2 EXCEPT !.cp = ld.profile]]
      AfterCsv(r2, w2) ==
        IF r2.raised THEN Raise(w2)
        ELSE Reload(w2, load_user_profile(w2.pf))
      \* save_plan_to_csv(vision, system)
      SaveCsv(w1, r2) ==
        AfterCsv(r2, [w1 EXCEPT !.pl = r2.file,
                                !.wr = IF r2.file # w1.pl \/ ~r2.raised
                                         THEN @ \cup {"plans"} ELSE @])
      AfterProfile(r1, w1) ==
        IF r1.raised THEN Raise(w1)
        ELSE SaveCsv(w1, save_plan_to_csv(w1.pl, vision, system, now, o2))
      \* save_user_profile(vision, system)
      SaveProfile(r1) ==
        AfterProfile(r1,
          [w EXCEPT !.pf = r1.file,
                    !.wr = IF r1.file # w.pf \/ ~r1.raised
                             THEN @ \cup {"profile"} ELSE @,
                    !.saved = IF r1.raised THEN @
                              ELSE <<[vision |-> vision, system |-> system]>>])
  IN SaveProfile(save_user_profile(w.pf, vision, system, now, o1))

PlanFails == {"none", "profile-open", "profile-write", "csv-open", "csv-write"}

\* an update_journal that keeps the entry only when the save did not fail
update_journal_Rollback(w, mood, energy, note, now, outcome) ==
  LET Store(new_entry, r) ==
        [w EXCEPT !.jdb = IF r.result = "none" THEN @ ELSE @ \o <<new_entry>>,
                  !.jf = r.file,
                  !.wr = IF r.result = "saved" \/ r.file # w.jf
                           THEN @ \cup {"journal"} ELSE @,
                  !.lost = IF r.result = "none" THEN @ \o <<new_entry>> ELSE @]
  IN Store([Timestamp |-> MinuteOf(now), Mood |-> mood, Energy |-> energy,
            Note |-> note],
           save_to_mind_flow_db(w.jf, MinuteOf(now), mood, energy, note, outcome))

\* app.py:548 update_journal (the callback behind save_journal_entry)
\*   never raises: the save is wrapped in try/except Exception
update_journal(w, mood, energy, note, now, outcome) ==
  LET \* the entry joins the session journal, then the save is tried
      Store(new_entry, r) ==
        [w EXCEPT !.jdb = @ \o <<new_entry>>,
                  !.jf = r.file,
                  !.wr = IF r.result = "saved" \/ r.file # w.jf
                           THEN @ \cup {"journal"} ELSE @,
                  !.lost = IF r.result = "none" THEN @ \o <<new_entry>> ELSE @]
  IN Store([Timestamp |-> MinuteOf(now), Mood |-> mood, Energy |-> energy,
            Note |-> note],
           save_to_mind_flow_db(w.jf, MinuteOf(now), mood, energy, note, outcome))

\* ============================================================== messages
\* HumanMessage / AIMessage / ToolMessage: content is a text, tool_calls
\* the names of the tool calls an AIMessage carries.
Msg(role, content, tool_calls) ==
  [role |-> role, content |-> content, tool_calls |-> tool_calls]
HumanMessage(content) == Msg("user", content, <<>>)
AIMessage(content, tool_calls) == Msg("assistant", content, tool_calls)
ToolMessage == Msg("tool", <<"tool_result">>, <<>>)

\* n copies of a value
Rep(n, x) == [i \in 1..n |-> x]

\* ================================================================== LLM
\* contents a persona response can carry
Contents == {<<"text">>, <<>>, <<"tool_code">>}

\* arguments of set_full_plan tool calls explored
PlanA == [vision |-> "X", system |-> "Y"]
PlanB == [vision |-> "X2", system |-> ""]
PlanArgs == {PlanA, PlanB}

\* arguments of save_journal_entry tool calls explored
JournalArgs == {[mood |-> "Flowing", energy |-> 7, note |-> "done"],
                [mood |-> "Stuck", energy |-> 11, note |-> ""]}

\* sequences over S of length 0..n
SeqsUpTo(S, n) == UNION {[1..k -> S] : k \in 0..n}

\* ================================================================ nodes
\* A node run: raised (an exception left the node) and its cause, the
\* messages the node returns, the world after it, the LLM calls it made and
\* the tool calls it executed.
NodeRun(raised, cause, msgs, w, llm, tools) ==
  [raised |-> raised, cause |-> cause, msgs |-> msgs, w |-> w, llm |-> llm,
   tools |-> tools]

\* brain.py:711 the tool loop of strategist_node: calls i..Len(calls), the
\* failAt-th call fails with failKind.  -> [raised, w, ran]
RECURSIVE RunPlanTools(_, _, _, _, _, _)
RunPlanTools(w, calls, i, failAt, failKind, now) ==
  LET Then(r) ==
        IF r.raised THEN [raised |-> TRUE, w |-> r.w, ran |-> i]
        ELSE RunPlanTools(r.w, calls, i + 1, failAt, failKind, now)
  IN IF i > Len(calls) THEN [raised |-> FALSE, w |-> w, ran |-> i - 1]
     ELSE Then(set_full_plan(w, calls[i].vision, calls[i].system, now,
                             IF i = failAt THEN failKind ELSE "none"))

\* brain.py:701 strategist_node; c is what the LLM and the disk do:
\*   c.raise1 (first call raises), c.content, c.calls, c.failAt, c.failKind,
\*   c.raise2 (follow-up call raises)
strategist_node(w, now, c) ==
  LET response == AIMessage(c.content, Rep(Len(c.calls), "set_full_plan"))
      tool_messages == Rep(Len(c.calls), ToolMessage)
      follow_up_response == AIMessage(<<"text">>, <<>>)
      \* after the tool loop: the follow-up call
      FollowUp(t) ==
        IF t.raised THEN NodeRun(TRUE, "tool", <<>>, t.w, 1, t.ran)
        ELSE IF c.raise2 THEN NodeRun(TRUE, "llm", <<>>, t.w, 2, t.ran)
        ELSE NodeRun(FALSE, "none",
                     <<response>> \o tool_messages \o <<follow_up_response>>,
                     t.w, 2, t.ran)
  IN IF c.raise1 THEN NodeRun(TRUE, "llm", <<>>, w, 1, 0)
     ELSE IF c.calls # <<>>
       THEN FollowUp(RunPlanTools(w, c.calls, 1, c.failAt, c.failKind, now))
     ELSE NodeRun(FALSE, "none", <<response>>, w, 1, 0)

\* a healer that also logs a journal entry
healer_node_Logging(w, now, c) ==
  IF c.raise1 THEN NodeRun(TRUE, "llm", <<>>, w, 1, 0)
  ELSE NodeRun(FALSE, "none", <<AIMessage(c.content, <<>>)>>,
               update_journal(w, "Stuck", 3, "log", now, "ok"), 1, 0)

\* brain.py:728 healer_node
healer_node(w, now, c) ==
  IF c.raise1 THEN NodeRun(TRUE, "llm", <<>>, w, 1, 0)
  ELSE NodeRun(FALSE, "none", <<AIMessage(c.content, <<>>)>>, w, 1, 0)

\* brain.py:732 starter_node
starter_node(w, now, c) ==
  IF load_user_profile(w.pf).raised THEN NodeRun(TRUE, "load", <<>>, w, 0, 0)
  ELSE IF c.raise1 THEN NodeRun(TRUE, "llm", <<>>, w, 1, 0)
  ELSE NodeRun(FALSE, "none", <<AIMessage(c.content, <<>>)>>, w, 1, 0)

\* brain.py:772 the tool loop of architect_node: the i-th call's write goes
\* as outs[i]
RECURSIVE RunJournalTools(_, _, _, _, _)
RunJournalTools(w, calls, i, outs, now) ==
  IF i > Len(calls) THEN w
  ELSE RunJournalTools(
         update_journal(w, calls[i].mood, calls[i].energy, calls[i].note,
                        now, outs[i]),
         calls, i + 1, outs, now)

\* brain.py:759 architect_node (save_tool bound: update_callback is given)
\*   c.raise1, c.content, c.calls, c.outs, c.raise2
architect_node(w, now, c) ==
  LET response == AIMessage(c.content, Rep(Len(c.calls), "save_journal_entry"))
      tool_messages == Rep(Len(c.calls), ToolMessage)
      follow_up_response == AIMessage(<<"text">>, <<>>)
      n == Len(c.calls)
      \* after the tool loop: a follow-up call only if the response is empty
      FollowUp(w1) ==
        IF c.content = <<>> \/ Strip(c.content) = <<>>
          THEN IF c.raise2 THEN NodeRun(TRUE, "llm", <<>>, w1, 2, n)
               ELSE NodeRun(FALSE, "none",
                      <<response>> \o tool_messages \o <<follow_up_response>>,
                      w1, 2, n)
        ELSE NodeRun(FALSE, "none", <<response>> \o tool_messages, w1, 1, n)
  IN IF c.raise1 THEN NodeRun(TRUE, "llm", <<>>, w, 1, 0)
     ELSE IF c.calls # <<>>
       THEN FollowUp(RunJournalTools(w, c.calls, 1, c.outs, now))
     ELSE NodeRun(FALSE, "none", <<response>>, w, 1, 0)

\* the four labels of SupervisorDecision.decision, lower-cased
Agents == {"strategist", "healer", "starter", "architect"}

\* what structured_llm.invoke can do: return one of the four decisions, or
\* fail (raise, or return a result without a valid decision)
SupOutcomes == {"STRATEGIST", "HEALER", "STARTER", "ARCHITECT", "FAIL"}

\* a router that answers every decision with the logging label
LowerLabel_Logging(d) == "architect"

\* a router that answers every decision with the action label
LowerLabel_Action(d) == "starter"

\* a router that answers every decision with the onboarding label
LowerLabel_Onboarding(d) == "strategist"

\* str.lower() on a decision
LowerLabel(d) ==
  CASE d = "STRATEGIST" -> "strategist" [] d = "HEALER" -> "healer"
    [] d = "STARTER" -> "starter" [] d = "ARCHITECT" -> "architect"

\* brain.py:807 / 851: if not vision or ... or not system
Incomplete(profile) == ~Truthy(profile.vision) \/ ~Truthy(profile.system)

\* a default route that does not look at the profile
DefaultRoute_Fixed(profile) == "healer"

\* brain.py:851 the default route of the except branch
DefaultRoute(profile) == IF Incomplete(profile) THEN "strategist" ELSE "healer"

\* a supervisor that calls the classification a second time when it fails
supervisor_node_Retry(w, sup) ==
  LET Route(ld) ==
        IF ld.raised
          THEN [raised |-> TRUE, next_step |-> "none", failed |-> FALSE,
                llm |-> 0, incomplete |-> FALSE]
        ELSE IF sup = "FAIL"
          THEN [raised |-> FALSE, next_step |-> DefaultRoute(ld.profile),
                failed |-> TRUE, llm |-> 2,
                incomplete |-> Incomplete(ld.profile)]
        ELSE [raised |-> FALSE, next_step |-> LowerLabel(sup),
              failed |-> FALSE, llm |-> 1,
              incomplete |-> Incomplete(ld.profile)]
  IN Route(load_user_profile(w.pf))

\* brain.py:792 supervisor_node -> [raised, next_step, failed, incomplete, llm]
\*   failed: reasoning is the "structured output failed" text
supervisor_node(w, sup) ==
  LET Route(ld) ==
        IF ld.raised
          THEN [raised |-> TRUE, next_step |-> "none", failed |-> FALSE,
                llm |-> 0, incomplete |-> FALSE]
        ELSE IF sup = "FAIL"
          THEN [raised |-> FALSE, next_step |-> DefaultRoute(ld.profile),
                failed |-> TRUE, llm |-> 1,
                incomplete |-> Incomplete(ld.profile)]
        ELSE [raised |-> FALSE, next_step |-> LowerLabel(sup),
              failed |-> FALSE, llm |-> 1,
              incomplete |-> Incomplete(ld.profile)]
  IN Route(load_user_profile(w.pf))

\* brain.py:877 the conditional edge: the persona node named by next_step
PersonaNode(next_step, w, now, c) ==
  CASE next_step = "strategist" -> strategist_node(w, now, c)
    [] next_step = "healer" -> healer_node(w, now, c)
    [] next_step = "starter" -> starter_node(w, now, c)
    [] next_step = "architect" -> architect_node(w, now, c)

\* the number of nodes one invocation may run before the walk is cut off
MaxSteps == 4

\* a graph whose healer node leads back to the supervisor
EdgeFrom_Loop(node, next_step) ==
  IF node = "supervisor" THEN next_step
  ELSE IF node = "healer" THEN "supervisor" ELSE "END"

\* brain.py:877-891 the edges of the graph: the node that follows `node`.
\* The conditional edge of the supervisor maps next_step to the persona
\* of that name; every persona has one edge, to END.
EdgeFrom(node, next_step) ==
  IF node = "supervisor" THEN next_step ELSE "END"

\* the nodes the compiled graph runs from `node` on, in order
RECURSIVE Path(_, _, _)
Path(node, next_step, fuel) ==
  IF node = "END" \/ fuel = 0 THEN <<>>
  ELSE <<node>> \o Path(EdgeFrom(node, next_step), next_step, fuel - 1)

\* brain.py:867 the compiled graph's invoke({"messages": messages}):
\* the entry point is the supervisor (line 875), then the nodes the edges
\* lead to, until END.
invoke(w, messages, now, sup, c) ==
  LET Finish(s, n) ==
        [raised |-> n.raised, cause |-> n.cause,
         messages |-> messages \o n.msgs, w |-> n.w,
         next_step |-> s.next_step, failed |-> s.failed,
         incomplete |-> s.incomplete, sup_llm |-> s.llm,
         llm |-> s.llm + n.llm, tools |-> n.tools,
         nodes |-> Path("supervisor", s.next_step, MaxSteps)]
      Run(s) ==
        IF s.raised
          THEN [raised |-> TRUE, cause |-> "load", messages |-> messages,
                w |-> w, next_step |-> "none", failed |-> FALSE,
                incomplete |-> FALSE, sup_llm |-> 0, llm |-> 0, tools |-> 0,
                nodes |-> <<"supervisor">>]
        ELSE Finish(s, PersonaNode(EdgeFrom("supervisor", s.next_step),
                                   w, now, c))
  IN Run(supervisor_node(w, sup))

\* what the LLM and the disk can do during one persona node
Choice(raise1, content, calls, failAt, failKind, outs, raise2) ==
  [raise1 |-> raise1, content |-> content, calls |-> calls, failAt |-> failAt,
   failKind |-> failKind, outs |-> outs, raise2 |-> raise2]

RaiseFirst == Choice(TRUE, <<>>, <<>>, 0, "none", <<>>, FALSE)

\* a reply without tool calls, or the call raises
PlainChoices ==
  {RaiseFirst} \cup {Choice(FALSE, ct, <<>>, 0, "none", <<>>, FALSE) : ct \in Contents}

\* the tool-call lists a response can carry: 1..MaxToolCalls calls
CallLists(Args) == SeqsUpTo(Args, MaxToolCalls) \ {<<>>}

\* ... and those that repeat one call
RepLists(Args) == {Rep(k, a) : k \in 1..MaxToolCalls, a \in Args}

\* how the writes of n journal tool calls go: all succeed, or the last fails
OutcomeLists(n) ==
  {[i \in 1..n |-> IF i = n THEN o ELSE "ok"] : o \in WriteOutcomes}

\* Strategist: a plain reply; a reply with tool calls that all succeed (the
\* follow-up call returns or raises); a reply whose last tool call fails
StrategistChoices ==
  PlainChoices
  \cup {Choice(FALSE, <<>>, cs, 0, "none", <<>>, FALSE) : cs \in CallLists(PlanArgs)}
  \cup {Choice(FALSE, <<>>, cs, 0, "none", <<>>, TRUE) : cs \in RepLists(PlanArgs)}
  \cup {Choice(FALSE, <<>>, cs, Len(cs), fk, <<>>, FALSE) :
          cs \in {l \in CallLists(PlanArgs) : l[Len(l)] = PlanA},
          fk \in PlanFails \ {"none"}}

\* Architect: a plain reply; a reply with text and tool calls; a reply
\* without text whose tool calls write or fail to write (the follow-up call
\* returns or raises)
ArchitectChoices ==
  PlainChoices
  \cup {Choice(FALSE, <<"text">>, cs, 0, "none", Rep(Len(cs), "ok"), FALSE) :
          cs \in CallLists(JournalArgs)}
  \cup UNION {{Choice(FALSE, <<>>, cs, 0, "none", os, r2) :
                 os \in OutcomeLists(Len(cs)), r2 \in BOOLEAN} :
              cs \in RepLists(JournalArgs)}

PersonaChoices(next_step) ==
  CASE next_step = "strategist" -> StrategistChoices
    [] next_step = "architect" -> ArchitectChoices
    [] next_step = "none" -> {RaiseFirst}
    [] OTHER -> PlainChoices

\* no write fails: a plain reply, or a Strategist reply whose tool calls
\* all succeed
CalmChoices(next_step) ==
  CASE next_step = "strategist" ->
         PlainChoices
         \cup {Choice(FALSE, <<>>, cs, 0, "none", <<>>, FALSE) :
                 cs \in CallLists(PlanArgs)}
    [] next_step = "none" -> {RaiseFirst}
    [] OTHER -> PlainChoices

\* no tool is called: a plain reply, or a raising call
QuietChoices(next_step) ==
  IF next_step = "none" THEN {RaiseFirst} ELSE PlainChoices

\* the choices explored for a route: all of them ("all"), those without a
\* failing write ("calm"), or those without a tool call ("quiet")
ChoicesFor(mode, next_step) ==
  CASE mode = "all" -> PersonaChoices(next_step)
    [] mode = "calm" -> CalmChoices(next_step)
    [] mode = "quiet" -> QuietChoices(next_step)

\* ================================================================= state
VARIABLES
  proc,         \* "down", "up", or "crashed" (the script raised at import)
  boots,        \* process starts so far
  clock,        \* wall clock, in ticks
  profileFile,  \* data/user_profile.json
  plansFile,    \* data/plans_database.csv
  journalFile,  \* data/mind_flow_db.csv
  current_plan, \* brain.current_plan
  journal_db,   \* st.session_state.journal_db
  messages,     \* st.session_state.messages
  cot_history,  \* st.session_state.cot_history
  savers,       \* the calls of save_to_mind_flow_db of two sessions in flight
  turn          \* what the last script run did (observation only)

vars == <<proc, boots, clock, profileFile, plansFile, journalFile, current_plan,
          journal_db, messages, cot_history, savers, turn>>

files == <<profileFile, plansFile, journalFile>>

\* the observation of a script run in which nothing happened yet
NoTurn ==
  [kind |-> "none",      \* start, crashed, rejected, safety, brain, raised
   input |-> <<>>,       \* the prompt handled
   steps |-> <<>>,       \* the steps of the handler, in the order executed
   sup |-> "none",       \* what the classification call did
   next_step |-> "none", \* the supervisor's route
   failed |-> FALSE,     \* the classification failed
   incomplete |-> FALSE, \* the supervisor found vision or system missing
   sup_llm |-> 0,        \* LLM calls made by the supervisor
   llm |-> 0,            \* LLM calls made in all
   tools |-> 0,          \* tool calls executed
   nodes |-> <<>>,       \* graph nodes run, in order
   sent |-> <<>>,        \* the message list passed to the brain
   calls |-> <<>>,       \* the tool calls the persona's response carried
   returned |-> <<>>,    \* the messages the persona node returned
   metrics |-> [total_actions |-> 0, current_streak |-> 0],
                         \* what calculate_dashboard_metrics returned
   cause |-> "none",     \* of a raised run: llm, tool, load
   wr |-> {},            \* files written
   saved |-> <<>>,       \* last plan whose profile write succeeded
   lost |-> <<>>,        \* journal entries whose save returned None
   unsaved |-> <<>>,     \* plans whose set_full_plan raised
   rerun |-> FALSE]      \* st.rerun() was called

\* the stores a fresh or previously used installation can hold
\* (profile file, plan-history file, journal file)
Stores(pf, pl, jf) == [pf |-> pf, pl |-> pl, jf |-> jf]

OneRowJournal ==
  CsvFileOf("ok", <<[Timestamp |-> 0, Mood |-> "Flowing", Energy |-> 7,
                     Note |-> "N/A"]>>)

InitStores ==
  {Stores(MissingProfileFile, MissingCsv, MissingCsv),
   Stores(CorruptProfileFile, MissingCsv, EmptyCsv),
   Stores(ProfileFileOf("unreadable", NONE, NONE, <<>>), MissingCsv, CorruptCsv),
   Stores(ProfileFileOf("nonobject", NONE, NONE, <<>>), MissingCsv, MissingCsv),
   Stores(ProfileFileOf("object", "X", NONE, <<0>>), CorruptCsv, MissingCsv),
   Stores(ProfileFileOf("object", "", "Y", <<0>>), MissingCsv, MissingCsv),
   Stores(ProfileFileOf("object", "X", "Y", <<0>>), MissingCsv, OneRowJournal)}

\* the two sessions whose journal saves may overlap
Sessions == {"A", "B"}

\* a call of save_to_mind_flow_db: where it is ("idle", "read", "write",
\* "done"), the entry it saves, the frame df it built, what it returned
Saver(pc, entry, df, result) ==
  [pc |-> pc, entry |-> entry, df |-> df, result |-> result]

NoEntry == [Timestamp |-> 0, Mood |-> "", Energy |-> 0, Note |-> ""]

\* no save is in flight
NoSavers == [s \in Sessions |-> Saver("idle", NoEntry, <<>>, "none")]

Init ==
  /\ proc = "down"
  /\ boots = 0
  /\ clock = 0
  /\ \E st \in InitStores :
       /\ profileFile = st.pf
       /\ plansFile = st.pl
       /\ journalFile = st.jf
  /\ current_plan = EmptyProfile
  /\ journal_db = <<>>
  /\ messages = <<>>
  /\ cot_history = <<>>
  /\ savers = NoSavers
  /\ turn = NoTurn

\* app.py:614 the onboarding test of the conversation initialisation
IsReturningUser(user_profile) == Truthy(user_profile.system)

\* test.py:112 the test of the terminal harness for the returning-user
\* greeting
HarnessIsReturningUser(user_profile) ==
  Truthy(user_profile.vision) /\ Truthy(user_profile.system)

\* app.py:608 the greeting of a new conversation; llm is what the call
\* returns: "text", or "tool" (a response that carries a set_full_plan call,
\* which nobody executes).  -> the messages list after initialisation
Greeting(pf, llm) ==
  IF IsReturningUser(load_user_profile(pf).profile)
    THEN <<AIMessage(<<"starter_greeting">>, <<>>)>>
  ELSE <<AIMessage(<<"strategist_greeting">>,
                   IF llm = "tool" THEN <<"set_full_plan">> ELSE <<>>)>>

GreetingOutcomes == {"text", "tool"}

\* the first script run of a process: import brain (brain.py:90), load the
\* journal (app.py:389), greet (app.py:608); the memory of an earlier
\* process is gone
Boot ==
  /\ boots < MaxBoots
  /\ boots' = boots + 1
  /\ cot_history' = <<>>
  /\ \E ld \in {load_user_profile(profileFile)} :
        IF ld.raised
          THEN /\ proc' = "crashed"
               /\ current_plan' = EmptyProfile
               /\ journal_db' = <<>>
               /\ messages' = <<>>
               /\ turn' = [NoTurn EXCEPT !.kind = "crashed",
                                         !.steps = <<"load_user_profile">>,
                                         !.cause = "load"]
          ELSE /\ proc' = "up"
               /\ current_plan' = ld.profile
               /\ journal_db' = load_mind_flow_db(journalFile)
               /\ \E g \in GreetingOutcomes :
                    /\ messages' = Greeting(profileFile, g)
                    /\ turn' = [NoTurn EXCEPT
                                  !.kind = "start",
                                  !.steps = <<"load_user_profile",
                                              "load_mind_flow_db", "greeting">>,
                                  !.llm = 1]
  /\ UNCHANGED <<clock, savers, files>>

\* the app is started on an installation
StartSession == proc = "down" /\ Boot

\* the process is stopped and started again: the files stay
Restart == proc # "down" /\ Boot

\* time passes between two script runs
Tick ==
  /\ clock < MaxClock
  /\ clock' = clock + 1
  /\ UNCHANGED <<proc, boots, savers, files, current_plan, journal_db, messages,
                 cot_history, turn>>

\* app.py:526 "Clear Conversation History": del messages, rerun, and the
\* rerun greets again; cot_history is kept
ClearHistory ==
  /\ proc = "up"
  /\ Len(cot_history) < MaxCot
  /\ \E g \in GreetingOutcomes :
       /\ messages' = Greeting(profileFile, g)
       /\ turn' = [NoTurn EXCEPT !.kind = "clear", !.steps = <<"greeting">>,
                                 !.llm = 1, !.rerun = TRUE]
  /\ UNCHANGED <<proc, boots, clock, savers, files, current_plan, journal_db,
                 cot_history>>

\* app.py:87 output_guard on a response content: tool_code blocks are removed
output_guard(ai_text) == IF ai_text = <<"tool_code">> THEN <<>> ELSE ai_text

\* app.py:676 the response as stored: a truthy content is cleaned
Cleaned(response) ==
  IF response.content # <<>>
    THEN [response EXCEPT !.content = output_guard(@)]
    ELSE response

\* app.py:693 has_set_full_plan
HasSetFullPlan(response) ==
  \E i \in DOMAIN response.tool_calls : response.tool_calls[i] = "set_full_plan"

\* the record kept in cot_history (app.py:689): idx and, of result, the
\* route, whether the reasoning is the failure text, and its last message
\* (the response object that app.py:676 cleans and app.py:681 appends)
CotEntry(idx, r) ==
  [idx |-> idx, next_step |-> r.next_step, failed |-> r.failed,
   reply |-> Cleaned(r.messages[Len(r.messages)])]

\* app.py:647-704 the handling of one submitted prompt (chat_input or a
\* quick button); if the brain runs, the LLM and the disk do what
\* ChoicesFor allows for the route taken
HandlePrompt(prompt, mode, limit) ==
  /\ proc = "up"
  /\ Len(messages) + 2 <= limit
  /\ IF ~input_guard(prompt)
       THEN \* 0.5 the guard rejects: warning only
            /\ turn' = [NoTurn EXCEPT !.kind = "rejected", !.input = prompt,
                                      !.steps = <<"input_guard">>]
            /\ UNCHANGED <<proc, boots, clock, savers, files, current_plan,
                           journal_db, messages, cot_history>>
     ELSE IF HasSafetyKeyword(prompt)
       THEN \* 1 add the user message, 1.5 the fixed safety reply
            /\ messages' = messages \o <<HumanMessage(prompt),
                                         AIMessage(SAFETY_MESSAGE, <<>>)>>
            /\ turn' = [NoTurn EXCEPT
                          !.kind = "safety", !.input = prompt,
                          !.steps = <<"input_guard", "append_user",
                                      "safety_check", "append_reply">>]
            /\ UNCHANGED <<proc, boots, clock, savers, files, current_plan,
                           journal_db, cot_history>>
     ELSE \* 2 the brain
       LET w == World(profileFile, plansFile, journalFile, journal_db,
                      current_plan)
           with_user == Append(messages, HumanMessage(prompt))
           steps == <<"input_guard", "append_user", "safety_check", "invoke">>
       IN \E sup \in SupOutcomes :
          \E c \in ChoicesFor(mode, supervisor_node(w, sup).next_step) :
          \E r \in {invoke(w, with_user, clock, sup, c)} :
          \E t \in {[NoTurn EXCEPT
                       !.input = prompt, !.sup = sup, !.sent = with_user,
                       !.calls = IF c.raise1 THEN <<>> ELSE c.calls,
                       !.returned = SubSeq(r.messages, Len(with_user) + 1,
                                           Len(r.messages)),
                       !.next_step = r.next_step, !.failed = r.failed,
                       !.incomplete = r.incomplete, !.sup_llm = r.sup_llm,
                       !.llm = r.llm, !.tools = r.tools, !.nodes = r.nodes,
                       !.cause = r.cause, !.wr = r.w.wr, !.saved = r.w.saved,
                       !.lost = r.w.lost, !.unsaved = r.w.unsaved]} :
            /\ Len(r.w.jdb) <= MaxJournal
            /\ Len(r.w.jf.rows) <= MaxJournal
            /\ Len(r.w.pl.rows) <= MaxPlans
            /\ profileFile' = r.w.pf
            /\ plansFile' = r.w.pl
            /\ journalFile' = r.w.jf
            /\ journal_db' = r.w.jdb
            /\ current_plan' = r.w.cp
            /\ UNCHANGED <<proc, boots, clock, savers>>
            /\ IF r.raised
                 THEN \* the exception ends the script run
                      /\ messages' = with_user
                      /\ cot_history' = cot_history
                      /\ turn' = [t EXCEPT !.kind = "raised", !.steps = steps]
                 ELSE \E response \in {Cleaned(r.messages[Len(r.messages)])} :
                      /\ messages' = Append(with_user, response)
                      /\ cot_history' =
                           Append(cot_history, CotEntry(Len(with_user) + 1, r))
                      /\ turn' = [t EXCEPT
                                    !.kind = "brain",
                                    !.steps = steps \o <<"append_reply", "cot">>,
                                    !.rerun = HasSetFullPlan(response)]

\* a prompt is submitted; the LLM and the disk do whatever they can do
SubmitInput(prompt) == HandlePrompt(prompt, "all", MaxMsgs)

\* a prompt is submitted and no write fails
SubmitCalm(prompt) == HandlePrompt(prompt, "calm", MaxMsgs)

\* one process, one conversation
Next ==
  \/ StartSession
  \/ Tick
  \/ \E prompt \in Inputs : SubmitInput(prompt)

Spec == Init /\ [][Next]_vars

\* processes that are stopped and started again on the same files
NextRestart ==
  \/ StartSession
  \/ Restart
  \/ \E prompt \in Inputs : SubmitCalm(prompt)

SpecRestart == Init /\ [][NextRestart]_vars

\* a prompt is submitted in a conversation of up to MaxTalkMsgs messages
\* and no write fails
SubmitNext(prompt) == HandlePrompt(prompt, "calm", MaxTalkMsgs)

\* one process, one conversation of several turns
NextTalk ==
  \/ StartSession
  \/ \E prompt \in TalkInputs : SubmitNext(prompt)

SpecTalk == Init /\ [][NextTalk]_vars

\* a prompt is submitted and no tool is called
SubmitQuiet(prompt) == HandlePrompt(prompt, "quiet", MaxMsgs)

\* one process whose conversation history is cleared now and then
NextClear ==
  \/ StartSession
  \/ ClearHistory
  \/ \E prompt \in Inputs : SubmitQuiet(prompt)

SpecClear == Init /\ [][NextClear]_vars

\* ------------------------------------------------------ concurrent saves
\* the entries the two sessions save
SaverEntries ==
  {[Timestamp |-> 0, Mood |-> a.mood, Energy |-> a.energy, Note |-> a.note] :
     a \in JournalArgs}

\* two sessions of one app process, each about to save a distinct entry
InitSavers ==
  /\ proc = "up"
  /\ boots = 1
  /\ clock = 0
  /\ profileFile = MissingProfileFile
  /\ plansFile = MissingCsv
  /\ journalFile \in {st.jf : st \in InitStores}
  /\ current_plan = EmptyProfile
  /\ journal_db = <<>>
  /\ messages = <<>>
  /\ cot_history = <<>>
  /\ savers \in {sv \in [Sessions -> {Saver("read", e, <<>>, "none") :
                                         e \in SaverEntries}] :
                   sv["A"].entry # sv["B"].entry}
  /\ turn = NoTurn

\* app.py:278-296 the first half of save_to_mind_flow_db in session s: read
\* the whole file, return on a duplicate, else concatenate the new entry
SaveRead(s) ==
  /\ savers[s].pc = "read"
  /\ LET f == journalFile
         e == savers[s].entry
         df_existing == IF f.kind = "ok" THEN ReadJournalRows(f.rows) ELSE <<>>
     IN IF f.kind = "ok"
           /\ IsDuplicate(df_existing, e.Timestamp, e.Mood, e.Energy, e.Note)
          THEN savers' = [savers EXCEPT ![s] = Saver("done", e, df_existing, "dup")]
        ELSE savers' = [savers EXCEPT ![s] =
                          Saver("write", e,
                                IF f.kind \in {"ok", "corrupt", "blank"}
                                  THEN df_existing \o <<e>> ELSE <<e>>,
                                "none")]
  /\ UNCHANGED <<proc, boots, clock, files, current_plan, journal_db,
                 messages, cot_history, turn>>

\* app.py:299-311 the second half in session s: rewrite the whole file
\* with the frame built from what was read; a failing write returns None
SaveWrite(s, outcome) ==
  /\ savers[s].pc = "write"
  /\ journalFile' =
       CASE outcome = "ok" -> CsvFileOf("ok", WriteJournalRows(savers[s].df))
         [] outcome = "open" -> journalFile
         [] outcome = "write" -> EmptyCsv
  /\ savers' = [savers EXCEPT ![s] =
                  Saver("done", savers[s].entry, savers[s].df,
                        IF outcome = "ok" THEN "saved" ELSE "none")]
  /\ UNCHANGED <<proc, boots, clock, profileFile, plansFile, current_plan,
                 journal_db, messages, cot_history, turn>>

\* the steps of the two saves, in any interleaving
NextSavers ==
  \/ \E s \in Sessions : SaveRead(s)
  \/ \E s \in Sessions, outcome \in WriteOutcomes : SaveWrite(s, outcome)

SpecSavers == InitSavers /\ [][NextSavers]_vars

\* ---------------------------------------------------- dashboard metrics
\* pd.to_datetime(errors="coerce") on a Timestamp cell that is no date
NaT == 0 - 1

\* .dt.date of a journal Timestamp (a minute)
DateOfMinute(ts) == ts \div MinutesPerDay

\* app.py:352 / 359 while current_date in unique_dates: streak += 1 and
\* current_date goes one day back
RECURSIVE CountBack(_, _)
CountBack(unique_dates, current_date) ==
  IF current_date \in unique_dates
    THEN 1 + CountBack(unique_dates, current_date - 1)
    ELSE 0

\* metrics that count the streak from today only
calculate_dashboard_metrics_TodayOnly(db, now) ==
  LET rows == {i \in DOMAIN db : db[i].Timestamp # NaT}
      unique_dates == {DateOfMinute(db[i].Timestamp) : i \in rows}
  IN IF db = <<>> THEN [total_actions |-> 0, current_streak |-> 0]
     ELSE [total_actions |-> Len(db),
           current_streak |-> CountBack(unique_dates, DateOf(now))]

\* app.py:316 calculate_dashboard_metrics on the session journal db at the
\* time now -> total_actions and current_streak (avg_energy is left out).
\* pd.to_datetime(errors="coerce") and dropna drop the records whose
\* Timestamp is no date.
calculate_dashboard_metrics(db, now) ==
  LET rows == {i \in DOMAIN db : db[i].Timestamp # NaT}
      unique_dates == {DateOfMinute(db[i].Timestamp) : i \in rows}
      today == DateOf(now)
      FromYesterday(streak) ==
        IF streak = 0 THEN CountBack(unique_dates, today - 1) ELSE streak
  IN IF db = <<>> THEN [total_actions |-> 0, current_streak |-> 0]
     ELSE [total_actions |-> Len(db),
           current_streak |-> FromYesterday(CountBack(unique_dates, today))]

\* the Timestamp cells explored: the first and the last minute of each
\* day, and a cell that is no date
MetricStamps ==
  {d * MinutesPerDay + m : d \in 0..MaxDay, m \in {0, MinutesPerDay - 1}}
  \cup {NaT}

\* the session journals explored
MetricJournals ==
  {[i \in DOMAIN ts |->
      [Timestamp |-> ts[i], Mood |-> "Flowing", Energy |-> 7, Note |-> "done"]] :
     ts \in SeqsUpTo(MetricStamps, MaxMetricRows)}

\* a session with some journal, on some day
InitMetrics ==
  /\ proc = "up"
  /\ boots = 1
  /\ clock \in {d * MinutesPerDay * TicksPerMinute : d \in 0..MaxDay}
  /\ profileFile = MissingProfileFile
  /\ plansFile = MissingCsv
  /\ journalFile = MissingCsv
  /\ current_plan = EmptyProfile
  /\ journal_db \in MetricJournals
  /\ messages = <<>>
  /\ cot_history = <<>>
  /\ savers = NoSavers
  /\ turn = NoTurn

\* app.py:429 the sidebar computes the dashboard metrics
ShowDashboard ==
  /\ proc = "up"
  /\ turn' = [NoTurn EXCEPT
                !.kind = "metrics",
                !.metrics = calculate_dashboard_metrics(journal_db, clock)]
  /\ UNCHANGED <<proc, boots, clock, savers, files, current_plan, journal_db,
                 messages, cot_history>>

SpecMetrics == InitMetrics /\ [][ShowDashboard]_vars

\* ------------------------------------------------------ terminal harness
\* the lines typed at the prompt of the terminal harness
HarnessInputs ==
  { <<" ">>, <<"quit">>, <<"SUICIDE">>, <<" ", "x">> }

\* test.py:186 the last AIMessage of the result, looking from index i
\* down; the last message if there is none
RECURSIVE LastAIMessage(_, _)
LastAIMessage(msgs, i) ==
  IF i = 0 THEN msgs[Len(msgs)]
  ELSE IF msgs[i].role = "assistant" THEN msgs[i]
  ELSE LastAIMessage(msgs, i - 1)

\* an except branch that leaves the history as it is
pop_Keep(msgs) == msgs

\* test.py:240 messages.pop()
pop(msgs) == SubSeq(msgs, 1, Len(msgs) - 1)

\* test.py:112 the greeting of the harness
HarnessGreeting(pf, llm) ==
  IF HarnessIsReturningUser(load_user_profile(pf).profile)
    THEN <<AIMessage(<<"starter_greeting">>, <<>>)>>
  ELSE <<AIMessage(<<"strategist_greeting">>,
                   IF llm = "tool" THEN <<"set_full_plan">> ELSE <<>>)>>

\* what the LLM and the disk can do during one persona node of the
\* harness: its brain is created without update_callback (test.py:105), so
\* the Architect has no tool bound and its response carries no tool call
HarnessChoices(next_step) ==
  CASE next_step = "strategist" -> StrategistChoices
    [] next_step = "none" -> {RaiseFirst}
    [] OTHER -> PlainChoices

\* test.py:83 main up to the conversation loop: import brain (brain.py:90),
\* load the profile, greet
HarnessStart ==
  /\ proc = "down"
  /\ boots < MaxBoots
  /\ boots' = boots + 1
  /\ \E ld \in {load_user_profile(profileFile)} :
        IF ld.raised
          THEN /\ proc' = "crashed"
               /\ current_plan' = EmptyProfile
               /\ messages' = <<>>
               /\ turn' = [NoTurn EXCEPT !.kind = "crashed",
                                         !.steps = <<"load_user_profile">>,
                                         !.cause = "load"]
          ELSE /\ proc' = "up"
               /\ current_plan' = ld.profile
               /\ \E g \in GreetingOutcomes :
                    /\ messages' = HarnessGreeting(profileFile, g)
                    /\ turn' = [NoTurn EXCEPT
                                  !.kind = "start",
                                  !.steps = <<"load_user_profile", "greeting">>,
                                  !.llm = 1]
  /\ UNCHANGED <<clock, savers, files, journal_db, cot_history>>

\* test.py:135-240 one pass of the conversation loop for the line typed
HarnessInput(line) ==
  /\ proc = "up"
  /\ Len(messages) + 2 <= MaxMsgs
  /\ \E user_input \in {Strip(line)} :
       IF user_input = <<>>
         THEN \* continue
              /\ turn' = [NoTurn EXCEPT !.kind = "skipped", !.input = user_input]
              /\ UNCHANGED <<proc, boots, clock, savers, files, current_plan,
                             journal_db, messages, cot_history>>
       ELSE IF LowerText(user_input) \in {<<"quit">>, <<"exit">>}
         THEN \* break
              /\ proc' = "exited"
              /\ turn' = [NoTurn EXCEPT !.kind = "quit", !.input = user_input]
              /\ UNCHANGED <<boots, clock, savers, files, current_plan, journal_db,
                             messages, cot_history>>
       ELSE IF HasSafetyKeyword(user_input)
         THEN \* the fixed safety message is printed; continue
              /\ turn' = [NoTurn EXCEPT !.kind = "safety", !.input = user_input,
                                        !.steps = <<"safety_check">>]
              /\ UNCHANGED <<proc, boots, clock, savers, files, current_plan,
                             journal_db, messages, cot_history>>
       ELSE
         LET w == World(profileFile, plansFile, journalFile, journal_db,
                        current_plan)
             with_user == Append(messages, HumanMessage(user_input))
             steps == <<"safety_check", "append_user", "invoke">>
         IN \E sup \in SupOutcomes :
            \E c \in HarnessChoices(supervisor_node(w, sup).next_step) :
            \E r \in {invoke(w, with_user, clock, sup, c)} :
            \E t \in {[NoTurn EXCEPT
                         !.input = user_input, !.sup = sup, !.sent = with_user,
                         !.calls = IF c.raise1 THEN <<>> ELSE c.calls,
                         !.returned = SubSeq(r.messages, Len(with_user) + 1,
                                             Len(r.messages)),
                         !.next_step = r.next_step, !.failed = r.failed,
                         !.incomplete = r.incomplete, !.sup_llm = r.sup_llm,
                         !.llm = r.llm, !.tools = r.tools, !.nodes = r.nodes,
                         !.cause = r.cause, !.wr = r.w.wr, !.saved = r.w.saved,
                         !.lost = r.w.lost, !.unsaved = r.w.unsaved]} :
              /\ Len(r.w.pl.rows) <= MaxPlans
              /\ profileFile' = r.w.pf
              /\ plansFile' = r.w.pl
              /\ journalFile' = r.w.jf
              /\ journal_db' = r.w.jdb
              /\ current_plan' = r.w.cp
              /\ UNCHANGED <<proc, boots, clock, savers, cot_history>>
              /\ IF r.raised
                   THEN \* except Exception: messages.pop()
                        /\ messages' = pop(with_user)
                        /\ turn' = [t EXCEPT !.kind = "raised",
                                             !.steps = steps \o <<"pop">>]
                   ELSE /\ messages' =
                             Append(with_user,
                                    LastAIMessage(r.messages, Len(r.messages)))
                        /\ turn' = [t EXCEPT
                                      !.kind = "brain",
                                      !.steps = steps \o <<"append_reply">>]

\* the terminal harness: one process, one conversation
NextHarness ==
  \/ HarnessStart
  \/ \E line \in HarnessInputs : HarnessInput(line)

SpecHarness == Init /\ [][NextHarness]_vars

TypeOK ==
  /\ proc \in {"down", "up", "crashed", "exited"}
  /\ clock \in Nat
  /\ boots \in 0..MaxBoots
  /\ Len(messages) <= MaxTalkMsgs
  /\ Len(journal_db) <= MaxJournal + MaxMetricRows
  /\ turn.next_step \in Agents \cup {"none"}

\* =============================================================== claims
\* a prompt was handled by the last script run
Handled == turn.kind \in {"rejected", "safety", "brain", "raised"}

\* the brain was invoked by the last script run
BrainTurn == turn.kind \in {"brain", "raised"}

\* the step taken is a script run that invoked the brain
BrainStep == messages' # messages /\ turn'.kind \in {"brain", "raised"}

\* the step taken starts a process
BootStep == boots' = boots + 1

\* no record occurs twice in a sequence
NoDuplicates(rows) ==
  \A i, j \in DOMAIN rows : rows[i] = rows[j] => i = j

\* C1: every handled input that contains a safety keyword is answered with
\* exactly the fixed safety message, and the turn writes no file.
C1_SafetyReply ==
  (Handled /\ HasSafetyKeyword(turn.input)) =>
    /\ turn.kind = "safety"
    /\ messages # <<>>
    /\ messages[Len(messages)] = AIMessage(SAFETY_MESSAGE, <<>>)
    /\ turn.wr = {}

\* C2: the safety-keyword check is the first step of every turn, before
\* input_guard and before the input is appended to the history.
C2_SafetyCheckFirst ==
  Handled => turn.steps[1] = "safety_check"

\* C3 (as stated): with vision or system missing, the router's decision is
\* strategist whatever the classification call returns.
C3_AlwaysOnboarding ==
  (BrainTurn /\ turn.incomplete) => turn.next_step = "strategist"

\* C3 (amended): with vision or system missing, the router's decision is the
\* label the classification call returns, and strategist when the call fails.
C3_RouteIsReturnedLabel ==
  (BrainTurn /\ turn.incomplete) =>
    turn.next_step = CASE turn.sup = "HEALER" -> "healer"
                       [] turn.sup = "STARTER" -> "starter"
                       [] turn.sup = "ARCHITECT" -> "architect"
                       [] turn.sup \in {"STRATEGIST", "FAIL"} -> "strategist"
                       [] OTHER -> "none"

C3_Witness ==
  /\ turn.kind = "brain"
  /\ turn.incomplete
  /\ turn.sup = "STARTER"
  /\ turn.next_step = "starter"

\* C4 (as stated): on a classification failure the fallback label is the
\* same whatever the profile is.
C4_FixedFallback ==
  turn.failed =>
    \A st \in InitStores :
      ~load_user_profile(st.pf).raised =>
        DefaultRoute(load_user_profile(st.pf).profile) = turn.next_step

\* C4 (amended): on a classification failure the router made one call (no
\* retry), falls back to strategist when vision or system is missing and to
\* healer otherwise, and the routed persona node runs.
C4_FallbackByProfile ==
  turn.failed =>
    /\ turn.sup_llm = 1
    /\ turn.next_step = IF turn.incomplete THEN "strategist" ELSE "healer"
    /\ turn.nodes = <<"supervisor", turn.next_step>>
    /\ turn.llm >= 2

C4_Witness ==
  /\ turn.kind = "brain"
  /\ turn.failed
  /\ ~turn.incomplete
  /\ turn.next_step = "healer"

\* C5: a (timestamp, mood, energy, note) tuple saved twice is stored once,
\* in the journal file and in the journal the session holds.
C5_OneRecord ==
  /\ NoDuplicates(journalFile.rows)
  /\ NoDuplicates(journal_db)

\* C6: a restart that keeps the files loads the vision and system last
\* saved and leaves the completeness of the stored profile as it was, the
\* supervisor branches on the completeness of the stored profile, and with
\* a complete profile the new session does not open with the Strategist
\* greeting.
C6_RestartKeepsProfile ==
  [][/\ (proc = "up" /\ BootStep) =>
          /\ proc' = "up"
          /\ turn.saved # <<>> =>
               /\ load_user_profile(profileFile').profile.vision
                    = turn.saved[1].vision
               /\ load_user_profile(profileFile').profile.system
                    = turn.saved[1].system
               /\ current_plan'.vision = turn.saved[1].vision
               /\ current_plan'.system = turn.saved[1].system
          /\ Incomplete(load_user_profile(profileFile').profile)
               = Incomplete(load_user_profile(profileFile).profile)
          /\ ~Incomplete(load_user_profile(profileFile').profile) =>
               \A i \in DOMAIN messages' :
                 messages'[i].content # <<"strategist_greeting">>
     /\ BrainStep =>
          turn'.incomplete = Incomplete(load_user_profile(profileFile).profile)]_vars

C6_Witness ==
  /\ boots = 2
  /\ turn.kind = "start"
  /\ plansFile.rows # <<>>
  /\ current_plan.vision = PlanA.vision
  /\ current_plan.system = PlanA.system
  /\ messages = <<AIMessage(<<"starter_greeting">>, <<>>)>>

C8_OnlyOwnersWrite ==
  [][/\ (BrainStep /\ turn'.next_step \in {"healer", "starter", "none"}) =>
          /\ UNCHANGED <<files, journal_db, current_plan>>
          /\ turn'.wr = {}
     /\ (BrainStep /\ turn'.next_step = "strategist") =>
          /\ UNCHANGED <<journalFile, journal_db>>
          /\ turn'.wr \subseteq {"profile", "plans"}
     /\ (BrainStep /\ turn'.next_step = "architect") =>
          /\ UNCHANGED <<profileFile, plansFile, current_plan>>
          /\ turn'.wr \subseteq {"journal"}
     /\ BootStep => UNCHANGED files]_vars

C8_Witness ==
  /\ turn.kind = "brain"
  /\ turn.next_step = "healer"
  /\ turn.wr = {}
  /\ profileFile.kind = "missing"
  /\ journalFile.kind = "missing"

\* C9: a missing, unreadable, malformed or non-object profile file loads as
\* the empty profile, a missing, empty or unparsable journal file loads as
\* the empty journal, and no load ends the process.
C9_LoadsNeverFatal ==
  /\ proc # "crashed"
  /\ profileFile.kind # "object" =>
       /\ ~load_user_profile(profileFile).raised
       /\ load_user_profile(profileFile).profile = EmptyProfile
  /\ journalFile.kind # "ok" => load_mind_flow_db(journalFile) = <<>>

C11_PlanWriteFailure ==
  (BrainTurn /\ turn.unsaved # <<>>) =>
    /\ turn.kind = "brain"
    /\ current_plan.vision = turn.unsaved[Len(turn.unsaved)].vision
    /\ current_plan.system = turn.unsaved[Len(turn.unsaved)].system

\* C12: every entry of the session journal and of the journal file has an
\* energy between 1 and 10.
C12_EnergyInRange ==
  /\ \A i \in DOMAIN journal_db : journal_db[i].Energy \in 1..10
  /\ \A i \in DOMAIN journalFile.rows : journalFile.rows[i].Energy \in 1..10

\* C13: the journal file is append-only: every record in the file before a
\* step is in the file after it, unchanged and at the same position.
C13_AppendOnly ==
  [][\A i \in DOMAIN journalFile.rows :
       /\ i \in DOMAIN journalFile'.rows
       /\ journalFile'.rows[i] = journalFile.rows[i]]_vars

\* C14: every message of the session history has role user or assistant.
C14_RolesUserOrAssistant ==
  \A i \in DOMAIN messages : messages[i].role \in {"user", "assistant"}

\* C15: every invocation of the brain graph runs the supervisor once, then
\* exactly one persona node, the one named by next_step, which is one of
\* the four labels, and then ends: two nodes and no more.
C15_SupervisorThenOnePersona ==
  BrainTurn =>
    /\ Len(turn.nodes) = 2
    /\ turn.nodes[1] = "supervisor"
    /\ turn.nodes[2] \in Agents
    /\ turn.nodes[2] = turn.next_step

C15_Witness ==
  /\ turn.kind = "brain"
  /\ turn.nodes = <<"supervisor", "healer">>
  /\ turn.llm = 2

\* C16: the text of an input that triggered the safety gate is never part
\* of a message list passed to the brain, in the turn that triggered the
\* gate or in any later turn of the session.
C16_SafetyTextNeverSent ==
  \A i \in DOMAIN turn.sent :
    turn.sent[i].role = "user" => ~HasSafetyKeyword(turn.sent[i].content)

\* the tokens of the inputs explored that contain a safety keyword, in
\* either case
KeywordTokens == {"suicide", "SUICIDE", "zh:want to die"}

\* C17 (as claimed): an accepted input that contains a safety keyword is
\* handled by the healer persona.
C17_HealerHandles ==
  (turn.kind \in {"safety", "brain", "raised"}
     /\ \E i \in DOMAIN turn.input : turn.input[i] \in KeywordTokens) =>
    turn.nodes = <<"supervisor", "healer">>

\* C17 (amended): an input that contains a safety keyword is handled by no
\* persona: the brain is not invoked, so no supervisor and no persona node
\* runs and no LLM call is made; the guard rejects the input or the fixed
\* safety message answers it.
C17_NoPersonaHandles ==
  (Handled /\ \E i \in DOMAIN turn.input : turn.input[i] \in KeywordTokens) =>
    /\ turn.kind \in {"rejected", "safety"}
    /\ turn.nodes = <<>>
    /\ turn.next_step = "none"
    /\ turn.llm = 0
    /\ turn.kind = "safety" =>
         messages[Len(messages)] = AIMessage(SAFETY_MESSAGE, <<>>)

C17_Witness ==
  /\ turn.kind = "safety"
  /\ turn.input = <<"SUICIDE">>
  /\ messages[Len(messages)].content = SAFETY_MESSAGE

\* the stored profile is the complete profile of the example
ProfileIsXY ==
  /\ ~load_user_profile(profileFile).raised
  /\ load_user_profile(profileFile).profile.vision = "X"
  /\ load_user_profile(profileFile).profile.system = "Y"

\* C18 (as claimed): with the complete profile (vision "X", system "Y") and
\* the input "I did it" the router's decision is architect.
C18_LoggingLabel ==
  (BrainTurn /\ turn.input = <<"I did it">> /\ ~turn.incomplete
     /\ ProfileIsXY) =>
    turn.next_step = "architect"

\* C18 (amended): with a complete profile and the input "I did it" the
\* router's decision is the label the classification call returned,
\* architect exactly when that call returned ARCHITECT, and healer when
\* the call failed.
C18_DecisionIsReturned ==
  (BrainTurn /\ turn.input = <<"I did it">> /\ ~turn.incomplete) =>
    /\ turn.next_step =
         CASE turn.sup = "ARCHITECT" -> "architect"
           [] turn.sup = "STARTER" -> "starter"
           [] turn.sup = "HEALER" -> "healer"
           [] turn.sup = "STRATEGIST" -> "strategist"
           [] turn.sup = "FAIL" -> "healer"
    /\ turn.nodes[2] = "architect" <=> turn.sup = "ARCHITECT"

C18_Witness ==
  /\ turn.kind = "brain"
  /\ turn.input = <<"I did it">>
  /\ ProfileIsXY
  /\ turn.sup = "ARCHITECT"
  /\ turn.next_step = "architect"

\* C19 (as claimed): once vision and system are both set, the input
\* "30 is too much" is routed to starter, whatever the conversation before.
C19_ActionLabel ==
  (BrainTurn /\ turn.input = <<"30 is too much">> /\ ~turn.incomplete) =>
    turn.next_step = "starter"

\* C19 (amended): once vision and system are both set, the input
\* "30 is too much" is routed to the label the classification call
\* returned, starter exactly when that call returned STARTER, and to healer
\* when the call failed, whatever the conversation before.
C19_RouteIsReturned ==
  (BrainTurn /\ turn.input = <<"30 is too much">> /\ ~turn.incomplete) =>
    /\ turn.sup = "STARTER" => turn.nodes = <<"supervisor", "starter">>
    /\ turn.sup = "ARCHITECT" => turn.nodes = <<"supervisor", "architect">>
    /\ turn.sup = "HEALER" => turn.nodes = <<"supervisor", "healer">>
    /\ turn.sup = "STRATEGIST" => turn.nodes = <<"supervisor", "strategist">>
    /\ turn.sup = "FAIL" => turn.nodes = <<"supervisor", "healer">>

C19_Witness ==
  /\ turn.kind = "brain"
  /\ turn.input = <<"30 is too much">>
  /\ ~turn.incomplete
  /\ Len(turn.sent) = 4
  /\ turn.sup = "STARTER"
  /\ turn.next_step = "starter"

\* C20: at session start the Starter greeting is chosen exactly when the
\* stored profile is complete (the supervisor's test), the Strategist
\* greeting otherwise, and the app and the terminal harness choose the
\* same greeting for the profile.
C20_GreetingByCompleteness ==
  turn.kind = "start" =>
    LET p == load_user_profile(profileFile).profile
    IN /\ messages[1].content = <<"starter_greeting">> <=> ~Incomplete(p)
       /\ messages[1].content = <<"strategist_greeting">> <=> Incomplete(p)
       /\ IsReturningUser(p) <=> HarnessIsReturningUser(p)

\* C21: whenever set_full_plan was executed during a turn of the app, the
\* turn detects it (has_set_full_plan) and triggers a rerun.
C21_RerunOnPlanSaved ==
  (turn.kind = "brain" /\ turn.next_step = "strategist" /\ turn.tools >= 1) =>
    turn.rerun

\* C22: at every turn boundary the process-wide current_plan equals what
\* load_user_profile returns from the profile file, after any sequence of
\* set_full_plan calls, successful or failing.
C22_CurrentPlanInSync ==
  (proc = "up" /\ ~load_user_profile(profileFile).raised) =>
    current_plan = load_user_profile(profileFile).profile

\* the step taken is a script run whose Strategist response carried tool
\* calls
PlanCallsStep ==
  /\ BrainStep
  /\ turn'.next_step = "strategist"
  /\ turn'.calls # <<>>

\* C23: the k >= 1 set_full_plan calls of a Strategist response are
\* executed in the order listed: afterwards the profile file holds the
\* vision and system of the last call, the plan-history CSV has gained
\* exactly k rows in call order, and the node returned the response, k
\* tool messages and one follow-up reply.
C23_PlanCallsInOrder ==
  [][PlanCallsStep =>
       LET cs == turn'.calls
           k == Len(cs)
           n == Len(plansFile.rows)
       IN /\ profileFile'.kind = "object"
          /\ profileFile'.vision = cs[k].vision
          /\ profileFile'.system = cs[k].system
          /\ Len(plansFile'.rows) = n + k
          /\ \A i \in 1..k :
               /\ plansFile'.rows[n + i].vision = cs[i].vision
               /\ plansFile'.rows[n + i].system = cs[i].system
          /\ Len(turn'.returned) = k + 2
          /\ turn'.returned[1].role = "assistant"
          /\ turn'.returned[1].tool_calls = [i \in 1..k |-> "set_full_plan"]
          /\ \A i \in 2..(k + 1) : turn'.returned[i].role = "tool"
          /\ turn'.returned[k + 2].role = "assistant"
          /\ turn'.returned[k + 2].tool_calls = <<>>]_vars

\* the inputs explored that are too short after stripping, match an
\* injection pattern, or are too long
RejectedInputs ==
  { <<" ", "x">>, <<"you are now", "zh:want to die">>, <<"LONG", "suicide">> }

\* C24: an input rejected by input_guard is not processed: no message is
\* appended to the history, the brain is not invoked, and cot_history, the
\* profile and the journal are unchanged.
C24_RejectedNotProcessed ==
  [][turn'.input \in RejectedInputs =>
       /\ turn'.kind = "rejected"
       /\ messages' = messages
       /\ cot_history' = cot_history
       /\ profileFile' = profileFile
       /\ current_plan' = current_plan
       /\ journalFile' = journalFile
       /\ journal_db' = journal_db
       /\ plansFile' = plansFile
       /\ turn'.nodes = <<>>
       /\ turn'.sent = <<>>
       /\ turn'.llm = 0]_vars

C24_Witness ==
  /\ turn.kind = "rejected"
  /\ turn.input = <<"you are now", "zh:want to die">>
  /\ turn.steps = <<"input_guard">>
  /\ Len(messages) = 1

\* s is an initial part of t
IsPrefix(s, t) == Len(s) <= Len(t) /\ SubSeq(t, 1, Len(s)) = s

\* C25: in the terminal loop, when the brain invocation raises, the user
\* message added for the turn is removed, so the history after the failed
\* turn equals the history before it; in every other case the history is
\* only appended to.
C25_HistoryRestoredOnRaise ==
  [][/\ turn'.kind = "raised" =>
          /\ messages' = messages
          /\ turn'.sent = Append(messages, HumanMessage(turn'.input))
     /\ IsPrefix(messages, messages')
     /\ messages' # messages =>
          \/ messages = <<>>
          \/ /\ Len(messages') = Len(messages) + 2
             /\ messages'[Len(messages) + 1] = HumanMessage(turn'.input)
             /\ messages'[Len(messages) + 2].role = "assistant"]_vars

C25_Witness ==
  /\ turn.kind = "raised"
  /\ turn.steps = <<"safety_check", "append_user", "invoke", "pop">>
  /\ turn.wr = {"profile"}
  /\ Len(messages) = 1

\* C26: for every cot_history entry, the message at index idx of the
\* session history is the reply of the turn that recorded the entry, after
\* any sequence of brain turns, safety turns, rejected inputs and clears of
\* the conversation history.
C26_CotAboveItsReply ==
  \A i \in DOMAIN cot_history :
    /\ cot_history[i].idx \in DOMAIN messages
    /\ messages[cot_history[i].idx] = cot_history[i].reply

\* the session journal has a record dated day d
HasEntryOn(d) ==
  \E i \in DOMAIN journal_db :
    /\ journal_db[i].Timestamp \in Nat
    /\ journal_db[i].Timestamp \in (d * MinutesPerDay)..((d + 1) * MinutesPerDay - 1)

\* the day the reported streak ends on: today, or yesterday when today
\* has no record
StreakEnd ==
  IF HasEntryOn(DateOf(clock)) THEN DateOf(clock) ELSE DateOf(clock) - 1

\* C27: current_streak is the length of the longest run of consecutive days
\* with a journal record that ends today, or yesterday when today has no
\* record; it is 0 when neither day has one; total_actions is the number
\* of journal records.
C27_StreakEndsTodayOrYesterday ==
  turn.kind = "metrics" =>
    /\ turn.metrics.total_actions = Len(journal_db)
    /\ \A k \in 0..(turn.metrics.current_streak - 1) : HasEntryOn(StreakEnd - k)
    /\ ~HasEntryOn(StreakEnd - turn.metrics.current_streak)
    /\ (~HasEntryOn(DateOf(clock)) /\ ~HasEntryOn(DateOf(clock) - 1)) =>
         turn.metrics.current_streak = 0

C27_Witness ==
  /\ turn.kind = "metrics"
  /\ ~HasEntryOn(DateOf(clock))
  /\ turn.metrics.current_streak = 2
  /\ turn.metrics.total_actions = 3

\* C28: when no write failed, the session's journal, loaded from the file
\* at the start, and the journal file hold the same sequence of records
\* after any sequence of update_journal calls (both read as pandas reads a
\* written frame).
C28_JournalMatchesFile ==
  (proc = "up" /\ turn.lost = <<>>) =>
    ReadJournalRows(WriteJournalRows(journal_db)) = load_mind_flow_db(journalFile)

\* C29: every accepted turn of the app extends the session history by
\* exactly two messages, the user's message followed by one reply, so no
\* user message is left without a reply at a turn boundary, also when the
\* brain invocation raises.
C29_UserMessageThenReply ==
  [][(turn'.kind \in {"safety", "brain", "raised"} /\ messages' # messages) =>
       /\ Len(messages') = Len(messages) + 2
       /\ SubSeq(messages', 1, Len(messages)) = messages
       /\ messages'[Len(messages) + 1] = HumanMessage(turn'.input)
       /\ messages'[Len(messages')].role # "user"]_vars

\* the journal file holds the entry a session saved
InJournalFile(e) ==
  \E i \in DOMAIN journalFile.rows :
    journalFile.rows[i] = WriteJournalRows(<<e>>)[1]

\* C30: with two sessions saving distinct entries in any interleaving of
\* their read and write steps, every entry whose save returned a frame is
\* in the journal file once both saves have finished.
C30_NoLostEntry ==
  (\A s \in Sessions : savers[s].pc = "done") =>
    \A s \in Sessions :
      savers[s].result \in {"saved", "dup"} =>
        /\ journalFile.kind = "ok"
        /\ InJournalFile(savers[s].entry)

====
